---- MODULE Spec2Model ----
(***************************************************************************)
(* Model of rw_rsc_quickstart (src/src/main.rs): the toolchain checks      *)
(* (check_node, check_yarn_installation, check_yarn_version), the manifest *)
(* rewrite (update_package_jsons) and the sequencing of main.               *)
(*                                                                         *)
(* Text is modelled as sequences of tokens: a version string, a path and a *)
(* dependency name are sequences of strings, so that trimming, parsing,    *)
(* starts_with and contains are computed, not assumed.                     *)
(***************************************************************************)
EXTENDS Integers, Sequences, FiniteSets, TLC

VARIABLES pc, exitCode, fault, preserveOrder, destExists, destExisted,
          tempDir, files, snapshot, idx, canary, prevCanary, passed, effects,
          locals, runs

vars == <<pc, exitCode, fault, preserveOrder, destExists, destExisted,
          tempDir, files, snapshot, idx, canary, prevCanary, passed, effects,
          locals, runs>>

(***************************************************************************)
(* Bounds of the model.                                                    *)
(***************************************************************************)
MaxYarns == 2
MaxManifests == 3
MaxEntries == 2
MaxRuns == 2

(***************************************************************************)
(* Program constants.                                                      *)
(***************************************************************************)
NodeMinMajor == 20
YarnMinMajor == 4
ExitFailure == 1
ExitSuccess == 0
\* a panic (expect/unwrap) ends the process with the runtime's status: 101
\* when the build unwinds, 134 (SIGABRT) when it is built with panic=abort
PanicExitCodes == {101, 134}

\* the exit status is <<>> while the process runs and <<code>> once it ended
Running == <<>>
None == "none"

(***************************************************************************)
(* Version strings: str::trim and semver_rs::satisfies(version, ">=N").    *)
(***************************************************************************)
NumeralValue ==
    ("0" :> 0) @@ ("1" :> 1) @@ ("3" :> 3) @@ ("4" :> 4) @@ ("5" :> 5) @@
    ("9" :> 9) @@ ("19" :> 19) @@ ("20" :> 20) @@ ("21" :> 21)

IsNumeral(tok) == tok \in DOMAIN NumeralValue

Whitespace == {"\n", " "}

PreIdentifiers == {"rc.1"}

RECURSIVE TrimStart(_)
TrimStart(s) ==
    IF Len(s) > 0 /\ Head(s) \in Whitespace THEN TrimStart(Tail(s)) ELSE s

RECURSIVE TrimEnd(_)
TrimEnd(s) ==
    IF Len(s) > 0 /\ s[Len(s)] \in Whitespace
    THEN TrimEnd(SubSeq(s, 1, Len(s) - 1))
    ELSE s

Trim(s) == TrimEnd(TrimStart(s))

ParseError == [ok |-> FALSE, major |-> 0, minor |-> 0, patch |-> 0, pre |-> <<>>]

\* semver_rs Version::parse: ^v?MAJOR.MINOR.PATCH(-PRERELEASE)?$
ParseVersion(toks) ==
    LET s == IF Len(toks) > 0 /\ toks[1] = "v" THEN Tail(toks) ELSE toks
        core == /\ Len(s) >= 5
                /\ IsNumeral(s[1]) /\ s[2] = "." /\ IsNumeral(s[3])
                /\ s[4] = "." /\ IsNumeral(s[5])
        plain == core /\ Len(s) = 5
        withPre == core /\ Len(s) = 7 /\ s[6] = "-" /\ s[7] \in PreIdentifiers
    IN  IF plain \/ withPre
        THEN [ok |-> TRUE, major |-> NumeralValue[s[1]],
              minor |-> NumeralValue[s[3]], patch |-> NumeralValue[s[5]],
              pre |-> IF withPre THEN <<s[7]>> ELSE <<>>]
        ELSE ParseError

\* semver order of v against floor.0.0: a pre-release sorts before its release
GteFloor(v, floor) ==
    \/ v.major > floor
    \/ /\ v.major = floor
       /\ \/ v.minor > 0
          \/ v.patch > 0
          \/ v.pre = <<>>

\* Range::test without include_prerelease: a pre-release version satisfies a
\* comparator set only if one of its comparators carries a pre-release on the
\* same major.minor.patch; ">=N" has none
PrereleaseAllowed(v) == v.pre = <<>>

SatisfiesStrictlyGreater(toks, floor) ==
    LET v == ParseVersion(toks) IN v.major > floor /\ PrereleaseAllowed(v)

\* satisfies(version, ">=floor", None) for a version that parses
Satisfies(toks, floor) ==
    LET v == ParseVersion(toks) IN GteFloor(v, floor) /\ PrereleaseAllowed(v)

Render(v, maj, rest, pre, trail) ==
    (IF v THEN <<"v">> ELSE <<>>) \o <<maj, ".", rest[1], ".", rest[2]>> \o
    (IF pre THEN <<"-", "rc.1">> ELSE <<>>) \o
    (IF trail THEN <<"\n">> ELSE <<>>)

\* what `node --version` and `yarn --version` print: a newline ends it
ValidOutputs(majors) ==
    {Render(v, maj, rest, pre, TRUE) :
        v \in BOOLEAN, maj \in majors,
        rest \in {<<"0", "0">>, <<"0", "3">>, <<"9", "1">>}, pre \in BOOLEAN}
    \cup {Render(FALSE, maj, <<"0", "0">>, FALSE, FALSE) : maj \in majors}

InvalidOutputs ==
    {<<"not-a-version", "\n">>, <<"20", "\n">>, <<"v", "4", ".", "1">>, <<>>,
     <<"20", ".", "0", ".", "0", "-">>}

NodeOutputs == ValidOutputs({"19", "20", "21"}) \cup InvalidOutputs
YarnOutputs == ValidOutputs({"3", "4", "5"}) \cup InvalidOutputs

(***************************************************************************)
(* exec_with_optional_cwd: what the child process did.                     *)
(***************************************************************************)
ExecOutcomes(outputs) ==
    {[status |-> s, stdout |-> <<>>] :
        s \in {"spawn_failed", "signalled", "nonzero", "bad_utf8"}}
    \cup {[status |-> "ok", stdout |-> o] : o \in outputs}

\* "return" with the captured stdout, exit(1) on a non-zero status, panic on
\* the expect/unwrap sites
ExecDisposition(out) ==
    CASE out.status = "spawn_failed" -> "panic"
      [] out.status = "signalled" -> "panic"
      [] out.status = "nonzero" -> "exit"
      [] out.status = "bad_utf8" -> "panic"
      [] OTHER -> "return"

(***************************************************************************)
(* Paths of the yarn candidates, as canonicalize returns them.             *)
(***************************************************************************)
Broken == <<"?">>

CanonicalPaths ==
    {<<"/", "corepack", "/", "yarn">>,
     <<"C:", "\\", "corepack", "\\", "yarn">>,
     <<"/", "homebrew", "/", "yarn">>,
     <<"/", "Corepack", "/", "yarn">>,
     <<"/", "corepack", "\\", "yarn">>}

Contains(s, sub) ==
    \E i \in 1..Len(s) : /\ i + Len(sub) - 1 <= Len(s)
                         /\ SubSeq(s, i, i + Len(sub) - 1) = sub

\* yarn_path_str.contains("/corepack/") || yarn_path_str.contains("\\corepack\\")
IsCorepack(p) ==
    \/ Contains(p, <<"/", "corepack", "/">>)
    \/ Contains(p, <<"\\", "corepack", "\\">>)

RECURSIVE SeqsUpTo(_, _)
SeqsUpTo(S, n) ==
    IF n = 0 THEN {<<>>}
    ELSE LET shorter == SeqsUpTo(S, n - 1)
         IN  shorter \cup {Append(s, x) : s \in shorter, x \in S}

SearchPaths == SeqsUpTo(CanonicalPaths \cup {Broken}, MaxYarns)

(***************************************************************************)
(* Manifests: the text of a package.json, serde_json::from_str and         *)
(* serde_json::to_string_pretty.                                           *)
(***************************************************************************)
RwCore == <<"@redwoodjs", "/", "core">>
RwExtra == <<"@redwoodjs", "-extra", "/", "core">>
React == <<"react">>

Names == {RwCore, RwExtra, React}

\* byte order of the names: '-' < '/' and '@' < 'r'
NameRank(n) == CASE n = RwExtra -> 1 [] n = RwCore -> 2 [] OTHER -> 3

Prefix == <<"@redwoodjs", "/">>

Canaries == {"8.0.0-canary.1", "8.0.0-canary.2"}
OldVersion == "7.0.0"

\* name.starts_with("@redwoodjs/")
StartsWith(name, prefix) ==
    Len(name) >= Len(prefix) /\ SubSeq(name, 1, Len(prefix)) = prefix

Entry(n, v) == [name |-> n, value |-> v]

NamesOf(es) == {es[i].name : i \in 1..Len(es)}

\* the entries of an object in the text: distinct names, in any order
Objects ==
    {es \in SeqsUpTo({Entry(n, OldVersion) : n \in Names}, MaxEntries) :
        Cardinality(NamesOf(es)) = Len(es)}

Absent == [kind |-> "absent", entries |-> <<>>]
NonObject == [kind |-> "nonobject", entries |-> <<>>]
Object(es) == [kind |-> "object", entries |-> es]

SubMappings == {Absent, NonObject} \cup {Object(es) : es \in Objects}

\* a package.json: its permissions and its text
Manifest(r, w, wf, pretty, deps, dev) ==
    [listable |-> TRUE, readable |-> r, writable |-> w, wellformed |-> wf,
     pretty |-> pretty, dependencies |-> deps, devDependencies |-> dev]

Mixed == Object(<<Entry(React, OldVersion), Entry(RwCore, OldVersion)>>)

\* every sub-mapping within the bounds, under either key, next to an absent
\* or a mixed sub-mapping under the other key
RichManifests ==
    {Manifest(TRUE, TRUE, TRUE, FALSE, deps, dev) :
        deps \in SubMappings, dev \in {Absent, Mixed}}
    \cup {Manifest(TRUE, TRUE, TRUE, FALSE, deps, dev) :
        deps \in {Absent, Mixed}, dev \in SubMappings}

\* a package.json in a directory glob cannot read: the entry is an Err
Unlistable ==
    [Manifest(FALSE, TRUE, TRUE, FALSE, Absent, Absent) EXCEPT !.listable = FALSE]
Unreadable == Manifest(FALSE, TRUE, TRUE, FALSE, Absent, Absent)
Malformed == Manifest(TRUE, TRUE, FALSE, FALSE, Absent, Absent)
ReadOnly ==
    Manifest(TRUE, FALSE, TRUE, FALSE, Object(<<Entry(RwCore, OldVersion)>>), Absent)
DevNotObject ==
    Manifest(TRUE, TRUE, TRUE, FALSE, Object(<<Entry(RwCore, OldVersion)>>), NonObject)
RootManifest ==
    Manifest(TRUE, TRUE, TRUE, FALSE, Mixed,
             Object(<<Entry(RwExtra, OldVersion)>>))
WebManifest ==
    Manifest(TRUE, TRUE, TRUE, TRUE, Absent, Object(<<Entry(RwCore, OldVersion)>>))

SampleManifests ==
    {Unreadable, Malformed, DevNotObject, RootManifest}

\* the package.json files of a project tree, in the order glob yields them
Trees ==
    {<<m>> : m \in RichManifests \cup {Unlistable, ReadOnly, WebManifest}}
    \cup SeqsUpTo(SampleManifests, MaxManifests)

RECURSIVE InsertSorted(_, _)
InsertSorted(sorted, e) ==
    IF sorted = <<>> THEN <<e>>
    ELSE IF NameRank(e.name) < NameRank(Head(sorted).name)
         THEN <<e>> \o sorted
         ELSE <<Head(sorted)>> \o InsertSorted(Tail(sorted), e)

RECURSIVE SortEntries(_)
SortEntries(es) ==
    IF es = <<>> THEN <<>>
    ELSE InsertSorted(SortEntries(SubSeq(es, 1, Len(es) - 1)), es[Len(es)])

Reverse(es) == [i \in 1..Len(es) |-> es[Len(es) + 1 - i]]

ParseObjectReversing(sub, po) ==
    IF sub.kind = "object" THEN Object(Reverse(sub.entries)) ELSE sub

\* serde_json's Map iterates in insertion order when built with
\* preserve_order and in key order (BTreeMap) otherwise
ParseObject(sub, po) ==
    IF sub.kind = "object" /\ ~po THEN Object(SortEntries(sub.entries)) ELSE sub

\* serde_json::from_str of a well-formed text
ParseJson(m, po) ==
    [dependencies |-> ParseObject(m.dependencies, po),
     devDependencies |-> ParseObject(m.devDependencies, po)]

RewriteAllEntries(es, version) ==
    [i \in 1..Len(es) |-> [es[i] EXCEPT !.value = version]]

\* the iter_mut loop: every entry whose name starts with the prefix gets the
\* canary version
RewriteEntries(es, version) ==
    [i \in 1..Len(es) |->
        IF StartsWith(es[i].name, Prefix)
        THEN [es[i] EXCEPT !.value = version]
        ELSE es[i]]

RewriteSub(sub, version) ==
    IF sub.kind = "object"
    THEN Object(RewriteEntries(sub.entries, version))
    ELSE sub

UpdateFaultIgnoringDev(m) ==
    CASE ~m.listable -> "GlobError"
      [] ~m.readable -> "ReadError"
      [] ~m.wellformed -> "ManifestParseError"
      [] m.dependencies.kind = "nonobject" -> "NotAnObject"
      [] ~m.writable -> "WriteError"
      [] OTHER -> "ok"

\* the first fault of one iteration of the loop, or "ok"
UpdateFault(m) ==
    CASE ~m.listable -> "GlobError"
      [] ~m.readable -> "ReadError"
      [] ~m.wellformed -> "ManifestParseError"
      [] m.dependencies.kind = "nonobject" -> "NotAnObject"
      [] m.devDependencies.kind = "nonobject" -> "NotAnObject"
      [] ~m.writable -> "WriteError"
      [] OTHER -> "ok"

\* the text fs::write leaves: to_string_pretty of the rewritten document and
\* one trailing newline
Rewritten(m, version, po) ==
    LET json == ParseJson(m, po)
    IN  [m EXCEPT !.pretty = TRUE,
                  !.dependencies = RewriteSub(json.dependencies, version),
                  !.devDependencies = RewriteSub(json.devDependencies, version)]

(***************************************************************************)
(* check_yarn_installation as a function of the search path: path[i] is    *)
(* what canonicalize returns for the i-th `yarn` on the PATH, or Broken.   *)
(***************************************************************************)
\* index of the first entry of the which_all loop that fails to
\* canonicalize, or 0
RECURSIVE FirstBroken(_, _)
FirstBroken(path, i) ==
    IF i > Len(path) THEN 0
    ELSE IF path[i] = Broken THEN i
    ELSE FirstBroken(path, i + 1)

YarnCheck(result, canonCalls, whichAll, count, hasCorepack) ==
    [result |-> result, canonCalls |-> canonCalls, whichAll |-> whichAll,
     count |-> count, hasCorepack |-> hasCorepack]

DecideCountFirst(count, hasCorepack) ==
    IF count > 1 THEN "MultipleInstallations"
    ELSE IF hasCorepack THEN "AmbiguousInstallation"
    ELSE "ok"

DecideRejectSingle(count, hasCorepack) ==
    IF hasCorepack \/ count = 1 THEN "AmbiguousInstallation"
    ELSE IF count > 1 THEN "MultipleInstallations"
    ELSE "ok"

\* the two exits after the loop; falling through returns to main
Decide(count, hasCorepack) ==
    IF hasCorepack THEN "AmbiguousInstallation"
    ELSE IF count > 1 THEN "MultipleInstallations"
    ELSE "ok"

\* the which_all loop and the decision after it; calls counts the
\* canonicalize calls made before the loop
EnumerateYarns(path, calls) ==
    LET b == FirstBroken(path, 1)
        seen == IF b > 0 THEN b - 1 ELSE Len(path)
        has == \E i \in 1..seen : IsCorepack(path[i])
    IN  IF b > 0
        THEN YarnCheck("CanonicalizationError", calls + b, TRUE, seen, has)
        ELSE YarnCheck(Decide(seen, has), calls + seen, TRUE, seen, has)

ResolveYarnNoEarlyReturn(path) ==
    IF path = <<>> THEN YarnCheck("NotFound", 0, FALSE, 0, FALSE)
    ELSE IF path[1] = Broken
    THEN YarnCheck("CanonicalizationError", 1, FALSE, 0, FALSE)
    ELSE LET r == EnumerateYarns(path, 1)
         IN  IF IsCorepack(path[1]) /\ r.result # "CanonicalizationError"
             THEN [r EXCEPT !.result = "ok"]
             ELSE r

ResolveYarn(path) ==
    IF path = <<>> THEN YarnCheck("NotFound", 0, FALSE, 0, FALSE)
    ELSE IF path[1] = Broken
    THEN YarnCheck("CanonicalizationError", 1, FALSE, 0, FALSE)
    ELSE IF IsCorepack(path[1]) THEN YarnCheck("ok", 1, FALSE, 0, FALSE)
    ELSE EnumerateYarns(path, 1)

(***************************************************************************)
(* The process: main and the functions it calls, one action per step.      *)
(***************************************************************************)
NoTemp == [state |-> "absent", hasFixture |-> FALSE, fixture |-> <<>>]
MainLocals == [op |-> "main"]

Init ==
    /\ pc = "check_node"
    /\ exitCode = Running
    /\ fault = None
    /\ preserveOrder \in BOOLEAN
    /\ destExists \in BOOLEAN
    /\ destExisted = destExists
    /\ tempDir = NoTemp
    /\ files \in (IF destExists THEN Trees ELSE {<<>>})
    /\ snapshot = <<>>
    /\ idx = 0
    /\ canary = None
    /\ prevCanary = None
    /\ passed = {}
    /\ effects = {}
    /\ locals = MainLocals
    /\ runs = 1

\* std::process::exit(code)
Exit(code, kind) ==
    /\ pc' = "exited"
    /\ exitCode' = <<code>>
    /\ fault' = kind

\* a failed expect/unwrap
Panic(kind) == \E code \in PanicExitCodes : Exit(code, kind)

\* the step returned: main goes on with the next one
Proceed(next) ==
    /\ pc' = next
    /\ passed' = passed \cup {pc}
    /\ UNCHANGED <<exitCode, fault>>

HaltWithOne(kind, isPanic) ==
    /\ Exit(ExitFailure, kind)
    /\ UNCHANGED passed

\* the process ends on an error: exit(1) after a message, or a panic
Halt(kind, isPanic) ==
    /\ IF isPanic THEN Panic(kind) ELSE Exit(ExitFailure, kind)
    /\ UNCHANGED passed

\* a subprocess that did not return its output ends the process
ExecFailed(out) ==
    Halt(IF ExecDisposition(out) = "exit" THEN "SubprocessFailure"
         ELSE "SubprocessPanic", ExecDisposition(out) # "exit")

Spawned(out, cmd) == IF out.status = "spawn_failed" THEN {} ELSE {cmd}

\* a version check: exec, trim, satisfies(version, ">=floor")
CheckVersion(out, floor, next) ==
    LET version == Trim(out.stdout)
    IN  IF ExecDisposition(out) # "return" THEN ExecFailed(out)
        ELSE IF ~ParseVersion(version).ok THEN Halt("ParseError", TRUE)
        ELSE IF ~Satisfies(version, floor) THEN Halt("VersionTooOld", FALSE)
        ELSE Proceed(next)

CheckNode ==
    /\ pc = "check_node"
    /\ \E out \in ExecOutcomes(NodeOutputs) :
        /\ locals' = [op |-> "check_node", exec |-> out,
                      version |-> Trim(out.stdout)]
        /\ effects' = effects \cup Spawned(out, "node --version")
        /\ CheckVersion(out, NodeMinMajor, "check_yarn_installation")
    /\ UNCHANGED <<preserveOrder, destExists, destExisted, tempDir, files,
                   snapshot, idx, canary, prevCanary, runs>>

CheckYarnInstallation ==
    /\ pc = "check_yarn_installation"
    /\ \E path \in SearchPaths :
        LET r == ResolveYarn(path)
        IN  /\ locals' = [op |-> "check_yarn_installation", path |-> path,
                          check |-> r]
            /\ CASE r.result = "ok" -> Proceed("check_destination")
                 [] r.result = "CanonicalizationError" ->
                      Halt("CanonicalizationError", TRUE)
                 [] OTHER -> Halt(r.result, FALSE)
    /\ UNCHANGED <<preserveOrder, destExists, destExisted, tempDir, files,
                   snapshot, idx, canary, prevCanary, effects, runs>>

CheckDestinationAlwaysFetch ==
    /\ pc = "check_destination"
    /\ pc' = "fetch"
    /\ locals' = MainLocals
    /\ UNCHANGED <<exitCode, fault, preserveOrder, destExists, destExisted,
                   tempDir, files, snapshot, idx, canary, prevCanary, passed,
                   effects, runs>>

\* if !Path::new(&args.installation_dir).exists()
CheckDestination ==
    /\ pc = "check_destination"
    /\ pc' = IF destExists THEN "get_latest_canary" ELSE "fetch"
    /\ locals' = MainLocals
    /\ UNCHANGED <<exitCode, fault, preserveOrder, destExists, destExisted,
                   tempDir, files, snapshot, idx, canary, prevCanary, passed,
                   effects, runs>>

\* reqwest::blocking::get(url) and resp.bytes(), at the place `at` of main
FetchArchiveAt(at) ==
    /\ pc = at
    /\ effects' = effects \cup {"fetch"}
    /\ locals' = MainLocals
    /\ \E ok \in BOOLEAN :
        IF ok THEN Proceed("get_tempdir") ELSE Halt("DownloadError", TRUE)
    /\ UNCHANGED <<preserveOrder, destExists, destExisted, tempDir, files,
                   snapshot, idx, canary, prevCanary, runs>>

FetchArchiveBeforeYarnCheck == FetchArchiveAt("check_yarn_installation")

FetchArchive == FetchArchiveAt("fetch")

GetTempdir ==
    /\ pc = "get_tempdir"
    /\ locals' = MainLocals
    /\ \E ok \in BOOLEAN :
        IF ok
        THEN /\ tempDir' = [NoTemp EXCEPT !.state = "empty"]
             /\ effects' = effects \cup {"tempdir"}
             /\ Proceed("extract")
        ELSE /\ UNCHANGED <<tempDir, effects>>
             /\ Halt("TempdirError", TRUE)
    /\ UNCHANGED <<preserveOrder, destExists, destExisted, files, snapshot,
                   idx, canary, prevCanary, runs>>

\* zip_extract::extract: the archive holds the fixture with some tree of
\* package.json files, or does not hold it
ExtractArchive ==
    /\ pc = "extract"
    /\ locals' = MainLocals
    /\ effects' = effects \cup {"extract"}
    /\ \E ok \in BOOLEAN :
        IF ok
        THEN /\ \/ \E tree \in Trees :
                     tempDir' = [state |-> "extracted", hasFixture |-> TRUE,
                                 fixture |-> tree]
                \/ tempDir' = [NoTemp EXCEPT !.state = "extracted"]
             /\ Proceed("rename")
        ELSE /\ tempDir' = [NoTemp EXCEPT !.state = "partial"]
             /\ Halt("ExtractError", TRUE)
    /\ UNCHANGED <<preserveOrder, destExists, destExisted, files, snapshot,
                   idx, canary, prevCanary, runs>>

\* fs::rename(from, &args.installation_dir)
RenameFixture ==
    /\ pc = "rename"
    /\ locals' = MainLocals
    /\ effects' = effects \cup {"rename"}
    /\ \E ok \in BOOLEAN :
        IF ok /\ tempDir.hasFixture
        THEN /\ files' = tempDir.fixture
             /\ destExists' = TRUE
             /\ tempDir' = [NoTemp EXCEPT !.state = "moved"]
             /\ Proceed("remove_temp")
        ELSE /\ UNCHANGED <<files, destExists, tempDir>>
             /\ Halt("RenameError", TRUE)
    /\ UNCHANGED <<preserveOrder, destExisted, snapshot, idx, canary,
                   prevCanary, runs>>

\* fs::remove_dir_all(target_dir)
RemoveTempDir ==
    /\ pc = "remove_temp"
    /\ locals' = MainLocals
    /\ effects' = effects \cup {"remove_temp"}
    /\ \E ok \in BOOLEAN :
        IF ok
        THEN /\ tempDir' = NoTemp
             /\ Proceed("get_latest_canary")
        ELSE /\ UNCHANGED tempDir
             /\ Halt("RemoveError", TRUE)
    /\ UNCHANGED <<preserveOrder, destExists, destExisted, files, snapshot,
                   idx, canary, prevCanary, runs>>

GetLatestCanary ==
    /\ pc = "get_latest_canary"
    /\ locals' = MainLocals
    /\ \E r \in Canaries \cup {"request_failed", "no_canary_tag"} :
        IF r \in Canaries
        THEN /\ canary' = r
             /\ Proceed("glob")
        ELSE /\ UNCHANGED canary
             /\ Halt("RegistryError", TRUE)
    /\ UNCHANGED <<preserveOrder, destExists, destExisted, tempDir, files,
                   snapshot, idx, prevCanary, effects, runs>>

\* glob::glob(pattern): the pattern is rejected, or the package.json files
\* under the destination are about to be iterated
GlobPackageJsons ==
    /\ pc = "glob"
    /\ locals' = MainLocals
    /\ \E ok \in BOOLEAN :
        IF ok
        THEN /\ snapshot' = files
             /\ idx' = 1
             /\ pc' = IF files = <<>> THEN "check_yarn_version" ELSE "update"
             /\ passed' = passed \cup {"glob"} \cup
                          (IF files = <<>> THEN {"update"} ELSE {})
             /\ UNCHANGED <<exitCode, fault>>
        ELSE /\ UNCHANGED <<snapshot, idx>>
             /\ Halt("PatternError", TRUE)
    /\ UNCHANGED <<preserveOrder, destExists, destExisted, tempDir, files,
                   canary, prevCanary, effects, runs>>

\* one iteration of the loop of update_package_jsons
UpdatePackageJson ==
    /\ pc = "update"
    /\ idx <= Len(files)
    /\ LET m == files[idx]
           f == UpdateFault(m)
       IN  /\ locals' = [op |-> "update_package_jsons", index |-> idx,
                         contents |-> m, fault |-> f]
           /\ IF f = "ok"
              THEN /\ files' = [files EXCEPT
                                  ![idx] = Rewritten(m, canary, preserveOrder)]
                   /\ effects' = effects \cup {"write"}
                   /\ idx' = idx + 1
                   /\ pc' = IF idx = Len(files) THEN "check_yarn_version"
                            ELSE "update"
                   /\ passed' = IF idx = Len(files)
                                THEN passed \cup {"update"} ELSE passed
                   /\ UNCHANGED <<exitCode, fault>>
              ELSE /\ UNCHANGED <<files, effects, idx>>
                   /\ Halt(f, TRUE)
    /\ UNCHANGED <<preserveOrder, destExists, destExisted, tempDir, snapshot,
                   canary, prevCanary, runs>>

CheckYarnVersion ==
    /\ pc = "check_yarn_version"
    /\ \E out \in ExecOutcomes(YarnOutputs) :
        /\ locals' = [op |-> "check_yarn_version", exec |-> out,
                      version |-> Trim(out.stdout)]
        /\ effects' = effects \cup Spawned(out, "yarn --version")
        /\ CheckVersion(out, YarnMinMajor, "yarn_install")
    /\ UNCHANGED <<preserveOrder, destExists, destExisted, tempDir, files,
                   snapshot, idx, canary, prevCanary, runs>>

\* exec_in(cmd, &args.installation_dir) for a command whose output is dropped
RunCommand(cmd, next) ==
    /\ \E out \in ExecOutcomes({<<>>}) :
        /\ locals' = [op |-> "exec_in", cmd |-> cmd, exec |-> out]
        /\ effects' = effects \cup Spawned(out, cmd)
        /\ IF ExecDisposition(out) = "return" THEN Proceed(next)
           ELSE ExecFailed(out)
    /\ UNCHANGED <<preserveOrder, destExists, destExisted, tempDir, files,
                   snapshot, idx, canary, prevCanary, runs>>

YarnInstall == pc = "yarn_install" /\ RunCommand("yarn install", "git_init")

GitInit == pc = "git_init" /\ RunCommand("git init", "git_add")

GitAdd == pc = "git_add" /\ RunCommand("git add", "git_commit")

GitCommit == pc = "git_commit" /\ RunCommand("git commit", "return")

\* main returns after the last println!
ReturnFromMain ==
    /\ pc = "return"
    /\ Exit(ExitSuccess, None)
    /\ locals' = MainLocals
    /\ UNCHANGED <<preserveOrder, destExists, destExisted, tempDir, files,
                   snapshot, idx, canary, prevCanary, passed, effects, runs>>

Next ==
    \/ CheckNode
    \/ CheckYarnInstallation
    \/ CheckDestination
    \/ FetchArchive
    \/ GetTempdir
    \/ ExtractArchive
    \/ RenameFixture
    \/ RemoveTempDir
    \/ GetLatestCanary
    \/ GlobPackageJsons
    \/ UpdatePackageJson
    \/ CheckYarnVersion
    \/ YarnInstall
    \/ GitInit
    \/ GitAdd
    \/ GitCommit
    \/ ReturnFromMain

Spec == Init /\ [][Next]_vars

(***************************************************************************)
(* The rewrite on its own: main has reached the call of                    *)
(* update_package_jsons on an existing project, and the call is repeated.  *)
(***************************************************************************)
BeforeRewrite == {"check_node", "check_yarn_installation", "get_latest_canary"}

InitRewrite ==
    /\ pc = "glob"
    /\ exitCode = Running
    /\ fault = None
    /\ preserveOrder \in BOOLEAN
    /\ destExists = TRUE
    /\ destExisted = TRUE
    /\ tempDir = NoTemp
    /\ files \in Trees
    /\ snapshot = <<>>
    /\ idx = 0
    /\ canary \in Canaries
    /\ prevCanary = None
    /\ passed = BeforeRewrite
    /\ effects = {"node --version"}
    /\ locals = MainLocals
    /\ runs = 1

\* the tool is started again on the same directory and reaches the call again
\* with the version the registry then reports
RewriteAgain ==
    /\ pc \in {"check_yarn_version", "exited"}
    /\ runs < MaxRuns
    /\ runs' = runs + 1
    /\ pc' = "glob"
    /\ exitCode' = Running
    /\ fault' = None
    /\ snapshot' = <<>>
    /\ idx' = 0
    /\ prevCanary' = IF "glob" \in passed THEN canary ELSE None
    /\ canary' \in Canaries
    /\ passed' = BeforeRewrite
    /\ effects' = {"node --version"}
    /\ locals' = MainLocals
    /\ UNCHANGED <<preserveOrder, destExists, destExisted, tempDir, files>>

NextRewrite == GlobPackageJsons \/ UpdatePackageJson \/ RewriteAgain

SpecRewrite == InitRewrite /\ [][NextRewrite]_vars

(***************************************************************************)
(* Properties of check_yarn_installation.                                  *)
(***************************************************************************)
\* a managed candidate: its canonical path holds the segment corepack between
\* two `/` or between two `\`
Managed(p) ==
    \E i \in 2..(Len(p) - 1) :
        /\ p[i] = "corepack"
        /\ \/ p[i - 1] = "/" /\ p[i + 1] = "/"
           \/ p[i - 1] = "\\" /\ p[i + 1] = "\\"

YarnChecked == locals.op = "check_yarn_installation"

Failed == pc = "exited" /\ exitCode # Running /\ exitCode # <<ExitSuccess>>

SingleUnmanaged ==
    /\ YarnChecked
    /\ Len(locals.path) = 1
    /\ locals.path[1] # Broken
    /\ ~Managed(locals.path[1])

\* C1 as stated: with exactly one yarn candidate on the search path, and that
\* one not managed, resolution fails with AmbiguousInstallation and the
\* process exits non-zero.
C1_SingleUnmanagedFails ==
    SingleUnmanaged => Failed /\ fault = "AmbiguousInstallation"

\* C1 as the code has it: with exactly one yarn candidate on the search path,
\* and that one not managed, check_yarn_installation enumerates the one
\* candidate and returns without an error; the process is still running and
\* main goes on to the destination check.
C1_SingleUnmanagedPasses ==
    SingleUnmanaged =>
        /\ pc = "check_destination"
        /\ exitCode = Running
        /\ fault = None
        /\ "check_yarn_installation" \in passed
        /\ locals.check.whichAll
        /\ locals.check.count = 1

C1_Witness ==
    /\ SingleUnmanaged
    /\ locals.path[1] = <<"/", "homebrew", "/", "yarn">>
    /\ pc = "check_destination"

\* C4: when the first yarn found is not managed and the search path holds two
\* or more candidates, resolution always fails; when every candidate
\* canonicalizes it fails with AmbiguousInstallation if any candidate is
\* managed and with MultipleInstallations if none is, and it never fails with
\* MultipleInstallations while a candidate is managed.
C4_ShadowedOrMultipleFails ==
    (/\ YarnChecked
     /\ Len(locals.path) >= 2
     /\ locals.path[1] # Broken
     /\ ~Managed(locals.path[1]))
    => LET path == locals.path
           anyManaged == \E i \in 1..Len(path) : Managed(path[i])
           allCanonical == \A i \in 1..Len(path) : path[i] # Broken
       IN  /\ Failed
           /\ allCanonical /\ anyManaged => fault = "AmbiguousInstallation"
           /\ allCanonical /\ ~anyManaged => fault = "MultipleInstallations"
           /\ fault = "MultipleInstallations" => ~anyManaged /\ allCanonical

C4_Witness ==
    /\ YarnChecked
    /\ Len(locals.path) >= 2
    /\ ~Managed(locals.path[1])
    /\ Managed(locals.path[Len(locals.path)])
    /\ fault = "AmbiguousInstallation"
    /\ exitCode = <<ExitFailure>>

\* C5: if the canonical path of the first yarn found is managed, resolution
\* succeeds whatever else is on the search path: canonicalize has been called
\* once, which_all has not been called, and the process has not failed.
C5_ManagedFirstSucceeds ==
    (/\ YarnChecked
     /\ Len(locals.path) >= 1
     /\ Managed(locals.path[1]))
    => /\ pc = "check_destination"
       /\ exitCode = Running
       /\ fault = None
       /\ locals.check.result = "ok"
       /\ locals.check.canonCalls = 1
       /\ ~locals.check.whichAll

C5_Witness ==
    /\ YarnChecked
    /\ Len(locals.path) >= 2
    /\ Managed(locals.path[1])
    /\ locals.path[2] = Broken
    /\ pc = "check_destination"

(***************************************************************************)
(* Properties of the version gate.                                         *)
(***************************************************************************)
\* the check `op` has run on a version string that parses
Gated(op) ==
    /\ locals.op = op
    /\ locals.exec.status = "ok"
    /\ ParseVersion(locals.version).ok

Continues(next) == pc = next /\ exitCode = Running

\* C6 as stated: for every valid version string, pre-release part or not,
\* check_node lets the run continue iff the major version is >= 20 and
\* check_yarn_version iff it is >= 4; otherwise the process ends non-zero.
C6_MajorFloorOnly ==
    /\ Gated("check_node") =>
          /\ Continues("check_yarn_installation")
                <=> ParseVersion(locals.version).major >= NodeMinMajor
          /\ Continues("check_yarn_installation") \/ Failed
    /\ Gated("check_yarn_version") =>
          /\ Continues("yarn_install")
                <=> ParseVersion(locals.version).major >= YarnMinMajor
          /\ Continues("yarn_install") \/ Failed

\* C6 as the code has it: for every valid version string without a
\* pre-release part (leading `v` or not, any minor and patch) the run
\* continues iff the major version is >= 20 (check_node) or >= 4
\* (check_yarn_version), and otherwise the process exits with 1; a
\* pre-release of the floor itself (20.0.0-rc.1, 4.0.0-rc.1) is rejected with
\* exit code 1 although its major version equals the floor.
C6_FloorOnReleases ==
    LET v == ParseVersion(locals.version)
        gate(op, floor, next) ==
            Gated(op) =>
                /\ v.pre = <<>> => (Continues(next) <=> v.major >= floor)
                /\ (v.pre # <<>> /\ v.major = floor /\ v.minor = 0 /\ v.patch = 0)
                      => ~Continues(next)
                /\ ~Continues(next) =>
                      /\ pc = "exited"
                      /\ exitCode = <<ExitFailure>>
                      /\ fault = "VersionTooOld"
    IN  /\ gate("check_node", NodeMinMajor, "check_yarn_installation")
        /\ gate("check_yarn_version", YarnMinMajor, "yarn_install")

C6_Witness ==
    /\ Gated("check_yarn_version")
    /\ locals.exec.stdout = <<"v", "4", ".", "0", ".", "3", "\n">>
    /\ Continues("yarn_install")

(***************************************************************************)
(* Exit codes.                                                             *)
(***************************************************************************)
\* C7 as stated: the exit code is 0 on success and exactly 1 on any fatal
\* error.
C7_ExitZeroOrOne ==
    pc = "exited" =>
        \/ fault = None /\ exitCode = <<ExitSuccess>>
        \/ fault # None /\ exitCode = <<ExitFailure>>

Panicked == pc = "exited" /\ \E code \in PanicExitCodes : exitCode = <<code>>
ExitedWithOne == pc = "exited" /\ exitCode = <<ExitFailure>>

\* C7 as the code has it: the exit code is 0 exactly when main returned after
\* the last git command. It is 1 for the errors the code reports itself: yarn
\* not found, an ambiguous or multiple installation, a version below the
\* floor, a subprocess that exited with a non-zero status. Every other fatal
\* error is a panic, whose exit status is the runtime's (101, or 134 when
\* built to abort) and never 0 or 1: an unparseable version string, a
\* canonicalization failure, a manifest that cannot be listed, read, parsed or
\* written or whose dependencies are not an object, a download, extraction,
\* rename, removal, registry or glob failure, and a subprocess that could not
\* be started, was killed by a signal or printed invalid UTF-8.
C7_ExitCodes ==
    pc = "exited" =>
        /\ exitCode = <<ExitSuccess>> <=> fault = None
        /\ fault = None <=> "git_commit" \in passed
        /\ ExitedWithOne \/ Panicked \/ exitCode = <<ExitSuccess>>
        /\ locals.op \in {"check_node", "check_yarn_version", "exec_in"} =>
              /\ locals.exec.status = "nonzero" => ExitedWithOne
              /\ locals.exec.status \in {"spawn_failed", "signalled", "bad_utf8"}
                    => Panicked
        /\ locals.op \in {"check_node", "check_yarn_version"}
              /\ locals.exec.status = "ok" =>
              IF ParseVersion(locals.version).ok
              THEN ExitedWithOne ELSE Panicked
        /\ YarnChecked =>
              IF \E i \in 1..Len(locals.path) : locals.path[i] = Broken
              THEN Panicked ELSE ExitedWithOne
        /\ locals.op = "update_package_jsons" => Panicked
        /\ locals.op = "main" /\ fault # None => Panicked

C7_Witness ==
    /\ pc = "exited"
    /\ locals.op = "update_package_jsons"
    /\ locals.fault = "ManifestParseError"
    /\ exitCode = <<101>>

(***************************************************************************)
(* Properties of update_package_jsons.                                     *)
(***************************************************************************)
HasPrefix(name) == Len(name) >= 2 /\ name[1] = "@redwoodjs" /\ name[2] = "/"

ValueOf(es, name) == es[CHOOSE i \in 1..Len(es) : es[i].name = name].value

SubKeys == {"dependencies", "devDependencies"}

Updated == locals.op = "update_package_jsons" /\ locals.fault = "ok"

\* C2: for the manifest an iteration of update_package_jsons has just written
\* and for each of dependencies and devDependencies: a sub-mapping that was an
\* object is an object with the same set of keys, every key that starts with
\* `@redwoodjs/` has the canary version as its value and every other key
\* keeps its previous value; a sub-mapping that was absent is still absent;
\* and a readable, well-formed, writable manifest whose sub-mappings are
\* objects or absent raises no error.
C2_RewritesPrefixedOnly ==
    locals.op = "update_package_jsons" =>
        LET before == locals.contents
            after == files[locals.index]
            sound == /\ before.listable /\ before.readable
                     /\ before.wellformed /\ before.writable
                     /\ \A k \in SubKeys : before[k].kind # "nonobject"
        IN  /\ sound => locals.fault = "ok" /\ fault = None
            /\ locals.fault = "ok" =>
                \A k \in SubKeys :
                    /\ before[k].kind = "absent" => after[k] = Absent
                    /\ before[k].kind = "object" =>
                        /\ after[k].kind = "object"
                        /\ Len(after[k].entries) = Len(before[k].entries)
                        /\ NamesOf(after[k].entries) = NamesOf(before[k].entries)
                        /\ \A n \in NamesOf(before[k].entries) :
                              ValueOf(after[k].entries, n) =
                                 IF HasPrefix(n) THEN canary
                                 ELSE ValueOf(before[k].entries, n)

C2_Witness ==
    /\ Updated
    /\ runs = 1
    /\ locals.contents.devDependencies = Absent
    /\ Len(locals.contents.dependencies.entries) >= 2
    /\ LET after == files[locals.index].dependencies.entries
       IN  /\ {RwCore, RwExtra} \subseteq NamesOf(after)
           /\ ValueOf(after, RwCore) = canary
           /\ ValueOf(after, RwExtra) = OldVersion

\* C3: a second run of update_package_jsons with the same replacement version
\* as the run before it leaves every manifest file with exactly the content
\* that run left: no step of the second run changes a file.
C3_Idempotent ==
    [][(pc = "update" /\ canary = prevCanary) => files' = files]_vars

C3_Witness ==
    /\ runs = 2
    /\ canary = prevCanary
    /\ pc = "check_yarn_version"
    /\ Updated
    /\ Len(files) >= 1
    /\ Len(locals.contents.dependencies.entries) >= 2
    /\ RwCore \in NamesOf(locals.contents.dependencies.entries)
    /\ ValueOf(locals.contents.dependencies.entries, RwCore) = canary

\* a manifest at which update_package_jsons faults
Faulting(m) ==
    \/ ~m.readable
    \/ ~m.wellformed
    \/ \E k \in SubKeys : m[k].kind = "nonobject"

LaterSteps ==
    {"yarn --version", "yarn install", "git init", "git add", "git commit"}

\* C9: update_package_jsons never goes past a faulting manifest (unreadable,
\* malformed, or with dependencies or devDependencies present and not an
\* object); when it halts at a manifest, the process has ended with a failure,
\* that manifest and every later one have the content they had when the pass
\* began, every earlier one has its rewritten content, and neither the yarn
\* version check nor yarn install nor a git command has run.
C9_HaltsAtFirstFault ==
    /\ pc \in {"update", "check_yarn_version"} =>
          \A j \in 1..(idx - 1) : ~Faulting(snapshot[j])
    /\ (pc = "exited" /\ locals.op = "update_package_jsons") =>
          /\ Failed
          /\ locals.index = idx
          /\ Len(files) = Len(snapshot)
          /\ \A j \in idx..Len(files) : files[j] = snapshot[j]
          /\ \A j \in 1..(idx - 1) :
                files[j] = Rewritten(snapshot[j], canary, preserveOrder)
          /\ effects \cap LaterSteps = {}
          /\ passed \cap {"update", "check_yarn_version", "yarn_install"} = {}

C9_Witness ==
    /\ pc = "exited"
    /\ locals.op = "update_package_jsons"
    /\ Len(files) = 3
    /\ idx = 2
    /\ Faulting(files[2])
    /\ files[1] # snapshot[1]
    /\ ~Faulting(files[3])

(***************************************************************************)
(* Properties of the sequencing in main.                                   *)
(***************************************************************************)
PlacementEffects == {"fetch", "tempdir", "extract", "rename", "remove_temp"}
HandOffCommands == {"yarn install", "git init", "git add", "git commit"}
ToolchainChecks == {"check_node", "check_yarn_installation"}

\* C8: in every step of a run, the archive is fetched, extracted or placed
\* and a manifest file is written only if check_node and
\* check_yarn_installation have already returned, and yarn install, git init,
\* git add and git commit are executed only if the manifest rewrite has
\* completed and check_yarn_version has returned after it.
C8_ChecksGateTheRun ==
    [][/\ \A e \in effects' \ effects :
            /\ e \in PlacementEffects \cup {"write"} =>
                  ToolchainChecks \subseteq passed
            /\ e \in HandOffCommands =>
                  {"update", "check_yarn_version"} \subseteq passed
       /\ files' # files => ToolchainChecks \subseteq passed
       /\ ("check_yarn_version" \in passed' \ passed) => "update" \in passed
      ]_vars

C8_Witness ==
    /\ {"fetch", "write", "git commit"} \subseteq effects
    /\ pc = "exited"
    /\ exitCode = <<ExitSuccess>>

RewriteAndHandOff ==
    {"get_latest_canary", "glob", "update", "check_yarn_version",
     "yarn_install", "git_init", "git_add", "git_commit"}

\* C10: when the destination exists at start, main never fetches, creates a
\* temp directory, extracts, renames or removes; it goes from the destination
\* check straight to the registry query, and a run that succeeds has resolved
\* the canary version, rewritten every package.json that was under the
\* directory, and run the yarn version check, yarn install and the git
\* commands. When it does not exist, the temp directory is removed only after
\* the rename has succeeded.
C10_ExistingDestination ==
    /\ destExisted =>
          /\ effects \cap PlacementEffects = {}
          /\ passed \cap PlacementEffects = {}
          /\ tempDir = NoTemp
          /\ pc \notin {"fetch", "get_tempdir", "extract", "rename", "remove_temp"}
          /\ (pc = "exited" /\ exitCode = <<ExitSuccess>>) =>
                /\ RewriteAndHandOff \subseteq passed
                /\ HandOffCommands \cup {"yarn --version"} \subseteq effects
                /\ canary \in Canaries
                /\ Len(files) = Len(snapshot)
                /\ \A j \in 1..Len(files) :
                      files[j] = Rewritten(snapshot[j], canary, preserveOrder)
    /\ ("remove_temp" \in effects \/ pc = "remove_temp") =>
          /\ ~destExisted
          /\ "rename" \in passed
          /\ destExists

C10_Witness ==
    /\ destExisted
    /\ pc = "exited"
    /\ exitCode = <<ExitSuccess>>
    /\ Len(files) = 3
    /\ files[3] # snapshot[3]

====
